---------------------------- MODULE Spec2Model ----------------------------
(***************************************************************************)
(* Model of the Stellar React Native wallet SDK core:                      *)
(*   - EventService       (subscription registry and listener fan-out)     *)
(*   - TransactionService (build -> sign -> submit pipeline)               *)
(*   - HorizonService     (gateway to the ledger)                          *)
(* JavaScript is single-threaded: a synchronous method is one atomic       *)
(* action; an async method is split at each await on the gateway.          *)
(***************************************************************************)
EXTENDS Naturals, Sequences, FiniteSets, TLC

(***************************************************************************)
(* Bounds of the model.                                                    *)
(***************************************************************************)
MaxStreams == 3
MaxCalls == 2
MaxFanStreams == 2
MaxSigns == 3
MaxDirCalls == 3

(***************************************************************************)
(* Input domains.                                                          *)
(***************************************************************************)
Accounts == {"GA", "GB"}
Addresses == Accounts \cup {"GC"}
Callbacks == {"cb1", "cb2"}
\* Listener callbacks that throw when invoked (behaviour of caller code).
ThrowingCallbacks == {"cb2"}

\* enum EventType
ACCOUNT_UPDATED == "ACCOUNT_UPDATED"
PAYMENT_RECEIVED == "PAYMENT_RECEIVED"
PAYMENT_SENT == "PAYMENT_SENT"
TRANSACTION_SUBMITTED == "TRANSACTION_SUBMITTED"
TRANSACTION_FAILED == "TRANSACTION_FAILED"
EventType ==
  {ACCOUNT_UPDATED, PAYMENT_RECEIVED, PAYMENT_SENT, TRANSACTION_SUBMITTED,
   TRANSACTION_FAILED}

\* What invoking a stream's close function can do: return after closing the
\* stream, or throw, with the stream already closed or still open.
CloseOutcomes == {"ok", "throwClosed", "throwOpen"}

\* Accounts that exist on the ledger; any other source account is unknown to it.
FundedAccounts == {"GA"}
Sources == {"GA", "GX"}

\* Secret seeds and the public key each decodes to; any other string does not
\* decode (Keypair.fromSecret throws).
SecretKeys == {"SA", "bad"}
ValidSecrets == {"SA", "SB"}
PublicKeyOf(secretKey) == IF secretKey = "SA" THEN "GA" ELSE "GB"

\* Amount strings the SDK's operations accept.
ValidAmounts == {"1", "10", "100"}

\* options of sendPayment, addTrustline and createAccount
PaymentOptionsSet ==
  {[destination |-> "GB", asset |-> "native", amount |-> "10", memo |-> "hi"],
   [destination |-> "GB", asset |-> "native", amount |-> "-1", memo |-> "undefined"]}
TrustlineOptionsSet ==
  {[asset |-> "USD", limit |-> l] : l \in {"undefined", "-1"}}
CreateAccountArgs ==
  {[destination |-> "GC", startingBalance |-> b] : b \in {"1", "-1"}}

\* Stream messages the transport can hand to onmessage.
AccountMessages == {[id |-> a] : a \in Accounts}
PaymentMessages ==
  {[id |-> "op", to |-> t] : t \in Addresses} \cup {[id |-> "op"]}

VARIABLES
  listeners,       \* EventService.listeners: eventType -> callbacks, in insertion order
  closeCallbacks,  \* EventService.closeCallbacks: Map in insertion order, <<[id, close]>>
  streams,         \* the transport's streams, by number: [kind, account, open]
  ret,             \* the last operation: [op, arg, out]
  calls,           \* the transport calls the last operation made, in order
  emitted,         \* the events the last operation passed to emitEvent, in order
  invoked,         \* the listener invocations of the last operation, in order
  registeredEarly, \* the <<eventType, callback>> registered before the first
                   \* subscription was opened and not removed since
  txs,             \* the TransactionService calls made so far, each with its progress
  ledger,          \* the ledger behind Horizon: account id -> sequence number
  keychain,        \* the accounts in the secure store, as KeyManager wrote them
  dirCalls         \* the KeyManager and loadAccountData calls made so far

evVars ==
  <<listeners, closeCallbacks, streams, ret, calls, emitted, invoked,
    registeredEarly>>
txVars == <<txs, ledger>>
dirVars == <<keychain, dirCalls>>
vars == <<evVars, txVars, dirVars>>

(***************************************************************************)
(* JavaScript Map, in insertion order, as a sequence of [id, close].       *)
(***************************************************************************)
MapHas(m, k) == \E i \in 1..Len(m) : m[i].id = k

MapIndex(m, k) == CHOOSE i \in 1..Len(m) : m[i].id = k

MapGet(m, k) == m[MapIndex(m, k)].close

\* Mutant: the Map is cleared where one key should be deleted.
MapDelete_Clear(m, k) == << >>

MapDelete(m, k) == SelectSeq(m, LAMBDA e : e.id # k)

MapSet(m, k, v) ==
  IF MapHas(m, k)
    THEN [m EXCEPT ![MapIndex(m, k)] = [id |-> k, close |-> v]]
    ELSE Append(m, [id |-> k, close |-> v])

MapKeys(m) == {m[i].id : i \in 1..Len(m)}

MapValues(m) == {m[i].close : i \in 1..Len(m)}

\* JavaScript Set, in insertion order, as a sequence without repetition.
SetHas(s, x) == \E i \in 1..Len(s) : s[i] = x

\* Mutant: Set.add appends the element whether or not the Set has it.
SetAdd_Appends(s, x) == Append(s, x)

SetAdd(s, x) == IF SetHas(s, x) THEN s ELSE Append(s, x)

\* Mutant: Set.delete leaves the element in the Set.
SetDelete_Keeps(s, x) == s

SetDelete(s, x) == SelectSeq(s, LAMBDA y : y # x)

(***************************************************************************)
(* The transport: server.accounts()/payments()...stream(handlers) opens a  *)
(* stream and returns its close function; the close function is named by   *)
(* the number of the stream it closes. stream(...) itself is taken to      *)
(* return; a close function may throw.                                     *)
(***************************************************************************)
StreamOpen(st, kind, publicKey) ==
  Append(st, [kind |-> kind, account |-> publicKey, open |-> TRUE])

\* The stream table after close function s was invoked with outcome o.
StreamClose(st, s, o) ==
  IF o = "throwOpen" THEN st ELSE [st EXCEPT ![s].open = FALSE]

OpenStreams(st) == {s \in 1..Len(st) : st[s].open}

Init ==
  /\ listeners = [t \in {} |-> << >>]
  /\ closeCallbacks = << >>
  /\ streams = << >>
  /\ ret = [op |-> "constructor", arg |-> "", out |-> "returned"]
  /\ calls = << >>
  /\ emitted = << >>
  /\ invoked = << >>
  /\ registeredEarly = {}
  /\ txs = << >>
  /\ ledger = [a \in FundedAccounts |-> 0]
  /\ keychain = << >>
  /\ dirCalls = << >>

\* Mutant: addEventListener registers the callback only while a subscription
\* exists.
AddEventListener_RequiresActive(eventType, callback) ==
  /\ listeners' =
       IF Len(closeCallbacks) = 0
         THEN listeners
         ELSE IF eventType \in DOMAIN listeners
                THEN [listeners EXCEPT ![eventType] = SetAdd(@, callback)]
                ELSE [t \in DOMAIN listeners \cup {eventType} |->
                        IF t = eventType THEN <<callback>> ELSE listeners[t]]
  /\ ret' = [op |-> "addEventListener", arg |-> eventType, callback |-> callback,
             out |-> "returned"]
  /\ registeredEarly' =
       IF Len(streams) = 0
         THEN registeredEarly \cup {<<eventType, callback>>}
         ELSE registeredEarly
  /\ calls' = << >>
  /\ emitted' = << >>
  /\ invoked' = << >>
  /\ UNCHANGED <<closeCallbacks, streams>>
  /\ UNCHANGED <<txVars, dirVars>>

(***************************************************************************)
(* EventService.addEventListener / removeEventListener                     *)
(***************************************************************************)
AddEventListener(eventType, callback) ==
  /\ listeners' =
       IF eventType \in DOMAIN listeners
         THEN [listeners EXCEPT ![eventType] = SetAdd(@, callback)]
         ELSE [t \in DOMAIN listeners \cup {eventType} |->
                 IF t = eventType THEN <<callback>> ELSE listeners[t]]
  /\ ret' = [op |-> "addEventListener", arg |-> eventType, callback |-> callback,
             out |-> "returned"]
  /\ registeredEarly' =
       IF Len(streams) = 0
         THEN registeredEarly \cup {<<eventType, callback>>}
         ELSE registeredEarly
  /\ calls' = << >>
  /\ emitted' = << >>
  /\ invoked' = << >>
  /\ UNCHANGED <<closeCallbacks, streams>>
  /\ UNCHANGED <<txVars, dirVars>>

RemoveEventListener(eventType, callback) ==
  /\ listeners' =
       IF eventType \in DOMAIN listeners
         THEN [listeners EXCEPT ![eventType] = SetDelete(@, callback)]
         ELSE listeners
  /\ ret' = [op |-> "removeEventListener", arg |-> eventType, callback |-> callback,
             out |-> "returned"]
  /\ registeredEarly' = registeredEarly \ {<<eventType, callback>>}
  /\ calls' = << >>
  /\ emitted' = << >>
  /\ invoked' = << >>
  /\ UNCHANGED <<closeCallbacks, streams>>
  /\ UNCHANGED <<txVars, dirVars>>

\* Mutant: emitEvent calls only the first callback of the Set.
EmitEvent_FirstOnly(ls, eventData) ==
  IF eventData.type \in DOMAIN ls /\ Len(ls[eventData.type]) > 0
    THEN <<[callback |-> ls[eventData.type][1],
            event |-> eventData,
            threw |-> ls[eventData.type][1] \in ThrowingCallbacks,
            caught |-> ls[eventData.type][1] \in ThrowingCallbacks]>>
    ELSE << >>

\* Mutant: emitEvent calls the callbacks without try/catch, so the forEach
\* ends at the first callback that throws and the exception leaves emitEvent.
EmitEvent_NoTryCatch(ls, eventData) ==
  IF eventData.type \in DOMAIN ls
    THEN LET cbs == ls[eventData.type]
             throwers == {i \in 1..Len(cbs) : cbs[i] \in ThrowingCallbacks}
             n == IF throwers = {}
                    THEN Len(cbs)
                    ELSE CHOOSE i \in throwers : \A j \in throwers : i <= j
         IN  [i \in 1..n |->
                [callback |-> cbs[i],
                 event |-> eventData,
                 threw |-> cbs[i] \in ThrowingCallbacks,
                 caught |-> FALSE]]
    ELSE << >>

(***************************************************************************)
(* EventService.emitEvent: every callback registered for the event's type  *)
(* is called in insertion order, each inside its own try/catch.            *)
(***************************************************************************)
EmitEvent(ls, eventData) ==
  IF eventData.type \in DOMAIN ls
    THEN [i \in 1..Len(ls[eventData.type]) |->
            [callback |-> ls[eventData.type][i],
             event |-> eventData,
             threw |-> ls[eventData.type][i] \in ThrowingCallbacks,
             caught |-> ls[eventData.type][i] \in ThrowingCallbacks]]
    ELSE << >>

\* What the caller of emitEvent gets: an exception that no catch took, or a
\* normal return.
EmitOutcome(invocations) ==
  IF \E i \in 1..Len(invocations) :
       invocations[i].threw /\ ~invocations[i].caught
    THEN "throw"
    ELSE "returned"

\* Mutant: account subscriptions take their id from the same prefix as
\* payments subscriptions.
AccountSubscriptionId_PaymentsPrefix(publicKey) == "payments-" \o publicKey

AccountSubscriptionId(publicKey) == "account-" \o publicKey

PaymentsSubscriptionId(publicKey) == "payments-" \o publicKey

\* Mutant: the close function is called without the `if (closeCallback)` test,
\* so an id that is not in the Map raises a TypeError.
UnsubscribeEffect_ThrowOnMissing(cc, st, subscriptionId, o) ==
  IF MapHas(cc, subscriptionId)
    THEN LET closeCallback == MapGet(cc, subscriptionId)
             called == <<[fn |-> "close", s |-> closeCallback]>>
         IN  IF o = "ok"
               THEN [cc |-> MapDelete(cc, subscriptionId),
                     st |-> StreamClose(st, closeCallback, o),
                     calls |-> called,
                     out |-> "true"]
               ELSE [cc |-> cc,
                     st |-> StreamClose(st, closeCallback, o),
                     calls |-> called,
                     out |-> "throw"]
    ELSE [cc |-> cc, st |-> st, calls |-> << >>, out |-> "throw"]

\* Mutant: unsubscribe deletes the entry before it calls the close function.
UnsubscribeEffect_DeleteFirst(cc, st, subscriptionId, o) ==
  IF MapHas(cc, subscriptionId)
    THEN [cc |-> MapDelete(cc, subscriptionId),
          st |-> StreamClose(st, MapGet(cc, subscriptionId), o),
          calls |-> <<[fn |-> "close", s |-> MapGet(cc, subscriptionId)]>>,
          out |-> IF o = "ok" THEN "true" ELSE "throw"]
    ELSE [cc |-> cc, st |-> st, calls |-> << >>, out |-> "false"]

(***************************************************************************)
(* EventService.unsubscribe(subscriptionId), with the outcome o of the     *)
(* close function should it be invoked: the registry, the streams, the     *)
(* transport calls made and what the caller gets.                          *)
(***************************************************************************)
UnsubscribeEffect(cc, st, subscriptionId, o) ==
  IF MapHas(cc, subscriptionId)
    THEN LET closeCallback == MapGet(cc, subscriptionId)
             called == <<[fn |-> "close", s |-> closeCallback]>>
         IN  IF o = "ok"
               THEN [cc |-> MapDelete(cc, subscriptionId),
                     st |-> StreamClose(st, closeCallback, o),
                     calls |-> called,
                     out |-> "true"]
               ELSE [cc |-> cc,
                     st |-> StreamClose(st, closeCallback, o),
                     calls |-> called,
                     out |-> "throw"]
    ELSE [cc |-> cc, st |-> st, calls |-> << >>, out |-> "false"]

\* Mutant: subscribeToAccount without the unsubscribe(subscriptionId) that closes
\* the existing subscription.
SubscribeToAccountEffect_NoUnsubscribe(cc, st, publicKey, o) ==
  LET subscriptionId == AccountSubscriptionId(publicKey)
      st2 == StreamOpen(st, "account", publicKey)
      closeCallback == Len(st2)
  IN  [cc |-> MapSet(cc, subscriptionId, closeCallback),
       st |-> st2,
       calls |-> <<[fn |-> "stream", s |-> closeCallback]>>,
       out |-> subscriptionId]

(***************************************************************************)
(* EventService.subscribeToAccount(publicKey)                              *)
(***************************************************************************)
SubscribeToAccountEffect(cc, st, publicKey, o) ==
  LET subscriptionId == AccountSubscriptionId(publicKey)
      u == UnsubscribeEffect(cc, st, subscriptionId, o)
      st2 == StreamOpen(u.st, "account", publicKey)
      closeCallback == Len(st2)
  IN  IF u.out = "throw"
        THEN u
        ELSE [cc |-> MapSet(u.cc, subscriptionId, closeCallback),
              st |-> st2,
              calls |-> Append(u.calls, [fn |-> "stream", s |-> closeCallback]),
              out |-> subscriptionId]

\* Mutant: subscribeToPayments opens the new stream first and closes the
\* existing subscription after it.
SubscribeToPaymentsEffect_OpenFirst(cc, st, publicKey, o) ==
  LET subscriptionId == PaymentsSubscriptionId(publicKey)
      st2 == StreamOpen(st, "payments", publicKey)
      closeCallback == Len(st2)
      u == UnsubscribeEffect(cc, st2, subscriptionId, o)
  IN  IF u.out = "throw"
        THEN [u EXCEPT !.calls = <<[fn |-> "stream", s |-> closeCallback]>> \o @]
        ELSE [cc |-> MapSet(u.cc, subscriptionId, closeCallback),
              st |-> u.st,
              calls |-> <<[fn |-> "stream", s |-> closeCallback]>> \o u.calls,
              out |-> subscriptionId]

(***************************************************************************)
(* EventService.subscribeToPayments(publicKey)                             *)
(***************************************************************************)
SubscribeToPaymentsEffect(cc, st, publicKey, o) ==
  LET subscriptionId == PaymentsSubscriptionId(publicKey)
      u == UnsubscribeEffect(cc, st, subscriptionId, o)
      st2 == StreamOpen(u.st, "payments", publicKey)
      closeCallback == Len(st2)
  IN  IF u.out = "throw"
        THEN u
        ELSE [cc |-> MapSet(u.cc, subscriptionId, closeCallback),
              st |-> st2,
              calls |-> Append(u.calls, [fn |-> "stream", s |-> closeCallback]),
              out |-> subscriptionId]

(***************************************************************************)
(* EventService.unsubscribeAll(): forEach over the Map in insertion order, *)
(* then clear(). outs[i] is the outcome of the i-th close function; the    *)
(* first one that throws ends the forEach and the call.                    *)
(***************************************************************************)
FirstThrow(outs) ==
  IF \E i \in DOMAIN outs : outs[i] # "ok"
    THEN CHOOSE i \in DOMAIN outs :
           outs[i] # "ok" /\ \A j \in 1..(i - 1) : outs[j] = "ok"
    ELSE Len(outs) + 1

RECURSIVE CloseEach(_, _, _, _)
CloseEach(st, cc, outs, n) ==
  IF n = 0
    THEN st
    ELSE StreamClose(CloseEach(st, cc, outs, n - 1), cc[n].close, outs[n])

UnsubscribeAllEffect(cc, st, outs) ==
  LET k == FirstThrow(outs)
      n == IF k > Len(cc) THEN Len(cc) ELSE k
  IN  [cc |-> IF k > Len(cc) THEN << >> ELSE cc,
       st |-> CloseEach(st, cc, outs, n),
       calls |-> [i \in 1..n |-> [fn |-> "close", s |-> cc[i].close]],
       out |-> IF k > Len(cc) THEN "returned" ELSE "throw"]

(***************************************************************************)
(* The operations as actions. The outcome of a close function is chosen    *)
(* only where one is invoked: for an id that is not registered, and for    *)
(* the entries after the first one that throws, there is nothing to choose.*)
(***************************************************************************)
OutcomesFor(subscriptionId) ==
  IF MapHas(closeCallbacks, subscriptionId) THEN CloseOutcomes ELSE {"ok"}

OutcomesForAll ==
  {outs \in [1..Len(closeCallbacks) -> CloseOutcomes] :
     \A i, j \in 1..Len(closeCallbacks) :
       (i < j /\ outs[i] # "ok") => outs[j] = "ok"}

SubscribeToAccount(publicKey) ==
  \E o \in OutcomesFor(AccountSubscriptionId(publicKey)) :
    LET r == SubscribeToAccountEffect(closeCallbacks, streams, publicKey, o)
    IN  /\ closeCallbacks' = r.cc
        /\ streams' = r.st
        /\ calls' = r.calls
        /\ ret' = [op |-> "subscribeToAccount", arg |-> publicKey, out |-> r.out]
        /\ emitted' = << >>
        /\ invoked' = << >>
        /\ UNCHANGED <<listeners, registeredEarly>>
        /\ UNCHANGED <<txVars, dirVars>>

SubscribeToPayments(publicKey) ==
  \E o \in OutcomesFor(PaymentsSubscriptionId(publicKey)) :
    LET r == SubscribeToPaymentsEffect(closeCallbacks, streams, publicKey, o)
    IN  /\ closeCallbacks' = r.cc
        /\ streams' = r.st
        /\ calls' = r.calls
        /\ ret' = [op |-> "subscribeToPayments", arg |-> publicKey, out |-> r.out]
        /\ emitted' = << >>
        /\ invoked' = << >>
        /\ UNCHANGED <<listeners, registeredEarly>>
        /\ UNCHANGED <<txVars, dirVars>>

Unsubscribe(subscriptionId) ==
  \E o \in OutcomesFor(subscriptionId) :
    LET r == UnsubscribeEffect(closeCallbacks, streams, subscriptionId, o)
    IN  /\ closeCallbacks' = r.cc
        /\ streams' = r.st
        /\ calls' = r.calls
        /\ ret' = [op |-> "unsubscribe", arg |-> subscriptionId, out |-> r.out]
        /\ emitted' = << >>
        /\ invoked' = << >>
        /\ UNCHANGED <<listeners, registeredEarly>>
        /\ UNCHANGED <<txVars, dirVars>>

\* Mutant: unsubscribeAll also clears the listeners Map.
UnsubscribeAll_ClearsListeners ==
  \E outs \in OutcomesForAll :
    LET r == UnsubscribeAllEffect(closeCallbacks, streams, outs)
    IN  /\ closeCallbacks' = r.cc
        /\ streams' = r.st
        /\ calls' = r.calls
        /\ ret' = [op |-> "unsubscribeAll", arg |-> "", out |-> r.out]
        /\ emitted' = << >>
        /\ invoked' = << >>
        /\ listeners' = [t \in {} |-> << >>]
        /\ UNCHANGED registeredEarly
        /\ UNCHANGED <<txVars, dirVars>>

UnsubscribeAll ==
  \E outs \in OutcomesForAll :
    LET r == UnsubscribeAllEffect(closeCallbacks, streams, outs)
    IN  /\ closeCallbacks' = r.cc
        /\ streams' = r.st
        /\ calls' = r.calls
        /\ ret' = [op |-> "unsubscribeAll", arg |-> "", out |-> r.out]
        /\ emitted' = << >>
        /\ invoked' = << >>
        /\ UNCHANGED <<listeners, registeredEarly>>
        /\ UNCHANGED <<txVars, dirVars>>

(***************************************************************************)
(* The stream handlers given to the transport by subscribeToAccount and    *)
(* subscribeToPayments. The transport calls them for an open stream.       *)
(***************************************************************************)
\* Mutant: the account stream handler emits its messages as PAYMENT_RECEIVED.
AccountEvent_AsPaymentReceived(accountData) ==
  [type |-> PAYMENT_RECEIVED, payload |-> accountData]

AccountEvent(accountData) == [type |-> ACCOUNT_UPDATED, payload |-> accountData]

\* paymentData.to, undefined when the message has no such field
PaymentTo(paymentData) ==
  IF "to" \in DOMAIN paymentData THEN paymentData.to ELSE "undefined"

\* Mutant: the two branches of the classification are swapped.
PaymentEventType_Swapped(paymentData, publicKey) ==
  IF PaymentTo(paymentData) = publicKey THEN PAYMENT_SENT ELSE PAYMENT_RECEIVED

PaymentEventType(paymentData, publicKey) ==
  IF PaymentTo(paymentData) = publicKey THEN PAYMENT_RECEIVED ELSE PAYMENT_SENT

PaymentEvent(paymentData, publicKey) ==
  [type |-> PaymentEventType(paymentData, publicKey), payload |-> paymentData]

OnAccountMessage(s, accountData) ==
  /\ s \in OpenStreams(streams)
  /\ streams[s].kind = "account"
  /\ emitted' = <<AccountEvent(accountData)>>
  /\ invoked' = EmitEvent(listeners, AccountEvent(accountData))
  /\ ret' = [op |-> "onmessage", arg |-> AccountSubscriptionId(streams[s].account),
             out |-> EmitOutcome(EmitEvent(listeners, AccountEvent(accountData)))]
  /\ calls' = << >>
  /\ UNCHANGED <<listeners, closeCallbacks, streams, registeredEarly>>
  /\ UNCHANGED <<txVars, dirVars>>

OnPaymentMessage(s, paymentData) ==
  /\ s \in OpenStreams(streams)
  /\ streams[s].kind = "payments"
  /\ emitted' = <<PaymentEvent(paymentData, streams[s].account)>>
  /\ invoked' = EmitEvent(listeners, PaymentEvent(paymentData, streams[s].account))
  /\ ret' = [op |-> "onmessage", arg |-> PaymentsSubscriptionId(streams[s].account),
             out |-> EmitOutcome(
                       EmitEvent(listeners, PaymentEvent(paymentData, streams[s].account)))]
  /\ calls' = << >>
  /\ UNCHANGED <<listeners, closeCallbacks, streams, registeredEarly>>
  /\ UNCHANGED <<txVars, dirVars>>

\* Mutant: the onerror handler ends the subscription of its stream.
OnError_DropsSubscription(s) ==
  /\ s \in OpenStreams(streams)
  /\ ret' = [op |-> "onerror",
             arg |-> IF streams[s].kind = "account"
                       THEN AccountSubscriptionId(streams[s].account)
                       ELSE PaymentsSubscriptionId(streams[s].account),
             out |-> "returned"]
  /\ calls' = << >>
  /\ emitted' = << >>
  /\ invoked' = << >>
  /\ closeCallbacks' = SelectSeq(closeCallbacks, LAMBDA e : e.close # s)
  /\ UNCHANGED <<listeners, streams, registeredEarly>>
  /\ UNCHANGED <<txVars, dirVars>>

\* Mutant: the onerror handler closes its stream.
OnError_ClosesStream(s) ==
  /\ s \in OpenStreams(streams)
  /\ ret' = [op |-> "onerror",
             arg |-> IF streams[s].kind = "account"
                       THEN AccountSubscriptionId(streams[s].account)
                       ELSE PaymentsSubscriptionId(streams[s].account),
             out |-> "returned"]
  /\ calls' = << >>
  /\ emitted' = << >>
  /\ invoked' = << >>
  /\ streams' = [streams EXCEPT ![s].open = FALSE]
  /\ UNCHANGED <<listeners, closeCallbacks, registeredEarly>>
  /\ UNCHANGED <<txVars, dirVars>>

OnError(s) ==
  /\ s \in OpenStreams(streams)
  /\ ret' = [op |-> "onerror",
             arg |-> IF streams[s].kind = "account"
                       THEN AccountSubscriptionId(streams[s].account)
                       ELSE PaymentsSubscriptionId(streams[s].account),
             out |-> "returned"]
  /\ calls' = << >>
  /\ emitted' = << >>
  /\ invoked' = << >>
  /\ UNCHANGED <<listeners, closeCallbacks, streams, registeredEarly>>
  /\ UNCHANGED <<txVars, dirVars>>

\* The ids callers pass to unsubscribe: every id subscribe can return, and one
\* that no subscribe returns.
SubscriptionIds ==
  {AccountSubscriptionId(a) : a \in Accounts}
    \cup {PaymentsSubscriptionId(a) : a \in Accounts} \cup {"unknown"}

\* The event types and callbacks callers register in the registry runs.
RegistryListenerTypes == {PAYMENT_RECEIVED}
RegistryCallbacks == {"cb1"}

EvNext ==
  \/ \E a \in Accounts : Len(streams) < MaxStreams /\ SubscribeToAccount(a)
  \/ \E a \in Accounts : Len(streams) < MaxStreams /\ SubscribeToPayments(a)
  \/ \E id \in SubscriptionIds : Unsubscribe(id)
  \/ UnsubscribeAll
  \/ \E t \in RegistryListenerTypes, cb \in RegistryCallbacks : AddEventListener(t, cb)
  \/ \E t \in RegistryListenerTypes, cb \in RegistryCallbacks : RemoveEventListener(t, cb)
  \/ \E s \in 1..Len(streams), m \in AccountMessages : OnAccountMessage(s, m)
  \/ \E s \in 1..Len(streams), m \in PaymentMessages : OnPaymentMessage(s, m)
  \/ \E s \in 1..Len(streams) : OnError(s)

Next == EvNext

Spec == Init /\ [][Next]_vars

(***************************************************************************)
(* The same service with several listeners per event type, one of which    *)
(* throws, on the subscriptions of one account.                            *)
(***************************************************************************)
FanAccounts == {"GA"}
FanListenerTypes == {ACCOUNT_UPDATED, PAYMENT_RECEIVED}
FanSubscriptionIds ==
  {AccountSubscriptionId(a) : a \in FanAccounts}
    \cup {PaymentsSubscriptionId(a) : a \in FanAccounts}
FanAccountMessages == {m \in AccountMessages : m.id \in FanAccounts}
FanPaymentMessages == {m \in PaymentMessages : PaymentTo(m) \in Accounts}

FanNext ==
  \/ \E a \in FanAccounts : Len(streams) < MaxFanStreams /\ SubscribeToAccount(a)
  \/ \E a \in FanAccounts : Len(streams) < MaxFanStreams /\ SubscribeToPayments(a)
  \/ \E id \in FanSubscriptionIds : Unsubscribe(id)
  \/ UnsubscribeAll
  \/ \E t \in FanListenerTypes, cb \in Callbacks : AddEventListener(t, cb)
  \/ \E t \in FanListenerTypes, cb \in Callbacks : RemoveEventListener(t, cb)
  \/ \E s \in 1..Len(streams), m \in FanAccountMessages : OnAccountMessage(s, m)
  \/ \E s \in 1..Len(streams), m \in FanPaymentMessages : OnPaymentMessage(s, m)
  \/ \E s \in 1..Len(streams) : OnError(s)

FanSpec == Init /\ [][FanNext]_vars

(***************************************************************************)
(* Results of calls: a value, or an Error whose message is the chain of    *)
(* contexts that `${error}` interpolation builds, outermost first.         *)
(***************************************************************************)
NoEnvelope == [none |-> TRUE]

Ok(v) == [ok |-> TRUE, val |-> v, err |-> << >>]

Fail(e) == [ok |-> FALSE, val |-> NoEnvelope, err |-> e]

Pending == [ok |-> FALSE, val |-> NoEnvelope, err |-> << >>]

NoResponse == [ok |-> FALSE, extras |-> FALSE, detail |-> "none"]

(***************************************************************************)
(* The Horizon server (Stellar SDK Server, external): what loadAccount and *)
(* submitTransaction can answer. A network failure is always possible.     *)
(***************************************************************************)
ServerLoadAccount(lg, publicKey) ==
  {Fail(<<"NetworkError">>)}
    \cup (IF publicKey \in DOMAIN lg
            THEN {Ok([id |-> publicKey, sequence |-> lg[publicKey]])}
            ELSE {Fail(<<"NotFoundError">>)})

ServerSubmitTransaction(lg, envelope) ==
  {[ok |-> FALSE, extras |-> FALSE, detail |-> "NetworkError"]}
    \cup (IF envelope.sequence # lg[envelope.source] + 1
            THEN {[ok |-> FALSE, extras |-> TRUE, detail |-> "tx_bad_seq"]}
            ELSE IF \A i \in 1..Len(envelope.signatures) :
                      envelope.signatures[i] # envelope.source
                   THEN {[ok |-> FALSE, extras |-> TRUE, detail |-> "tx_bad_auth"]}
                   ELSE {[ok |-> TRUE, extras |-> FALSE, detail |-> "success"]})

\* Mutant: submitTransaction without the branch for error.response.data.extras:
\* a rejection is reported by the HTTP error's message alone.
HorizonSubmitTransaction_NoExtras(resp) ==
  IF resp.ok
    THEN Ok([result |-> resp.detail])
    ELSE IF resp.extras
           THEN Fail(<<"Error submitting transaction",
                       "Request failed with status code 400">>)
           ELSE Fail(<<"Error submitting transaction", resp.detail>>)

(***************************************************************************)
(* HorizonService                                                          *)
(***************************************************************************)
HorizonLoadAccount(resp) ==
  IF resp.ok THEN resp ELSE Fail(<<"Error loading account">> \o resp.err)

HorizonSubmitTransaction(resp) ==
  IF resp.ok
    THEN Ok([result |-> resp.detail])
    ELSE IF resp.extras
           THEN Fail(<<"Transaction failed", resp.detail>>)
           ELSE Fail(<<"Error submitting transaction", resp.detail>>)

(***************************************************************************)
(* TransactionService: build, sign, submit                                 *)
(***************************************************************************)
BaseFee == "100"
TxTimeout == 30

\* Mutant: build() keeps the sequence number of the source account instead of
\* taking the next one.
BuildTransaction_StaleSequence(sourceAccount, operation, memo) ==
  [source |-> sourceAccount.id,
   sequence |-> sourceAccount.sequence,
   fee |-> "100",
   timeout |-> 30,
   operations |-> <<operation>>,
   memo |-> memo,
   signatures |-> << >>]

\* new TransactionBuilder(sourceAccount, {fee}).addOperation(op)
\*   [.addMemo(Memo.text(memo))].setTimeout(30).build()
\* build() takes the sequence number after the source account's.
BuildTransaction(sourceAccount, operation, memo) ==
  [source |-> sourceAccount.id,
   sequence |-> sourceAccount.sequence + 1,
   fee |-> BaseFee,
   timeout |-> TxTimeout,
   operations |-> <<operation>>,
   memo |-> memo,
   signatures |-> << >>]

\* `if (options.memo)`: undefined and the empty string attach no memo
MemoOf(options) ==
  IF options.memo = "undefined" \/ options.memo = ""
    THEN [type |-> "none"]
    ELSE [type |-> "text", value |-> options.memo]

\* Mutant: createPaymentTransaction lets the error of loadAccount through
\* without its own context.
CreatePaymentTransaction_NoContext(loaded, options) ==
  IF ~loaded.ok
    THEN Fail(loaded.err)
    ELSE IF options.amount \notin ValidAmounts
           THEN Fail(<<"Error creating payment transaction", "amount argument">>)
           ELSE Ok(BuildTransaction(
                     loaded.val,
                     [type |-> "payment", destination |-> options.destination,
                      asset |-> options.asset, amount |-> options.amount],
                     MemoOf(options)))

CreatePaymentTransaction(loaded, options) ==
  IF ~loaded.ok
    THEN Fail(<<"Error creating payment transaction">> \o loaded.err)
    ELSE IF options.amount \notin ValidAmounts
           THEN Fail(<<"Error creating payment transaction", "amount argument">>)
           ELSE Ok(BuildTransaction(
                     loaded.val,
                     [type |-> "payment", destination |-> options.destination,
                      asset |-> options.asset, amount |-> options.amount],
                     MemoOf(options)))

CreateTrustlineTransaction(loaded, options) ==
  IF ~loaded.ok
    THEN Fail(<<"Error creating trustline transaction">> \o loaded.err)
    ELSE IF options.limit # "undefined" /\ options.limit \notin ValidAmounts
           THEN Fail(<<"Error creating trustline transaction", "limit argument">>)
           ELSE Ok(BuildTransaction(
                     loaded.val,
                     [type |-> "changeTrust", asset |-> options.asset,
                      limit |-> options.limit],
                     [type |-> "none"]))

\* Mutant: the catch of signTransaction swallows the error and returns the
\* transaction as it is.
SignTransaction_Swallow(transaction, secretKey) ==
  IF secretKey \in ValidSecrets
    THEN Ok([transaction EXCEPT
               !.signatures = Append(@, PublicKeyOf(secretKey))])
    ELSE Ok(transaction)

\* Mutant: sign() replaces the signatures of the transaction by the new one.
SignTransaction_Replace(transaction, secretKey) ==
  IF secretKey \in ValidSecrets
    THEN Ok([transaction EXCEPT !.signatures = <<PublicKeyOf(secretKey)>>])
    ELSE Fail(<<"Error signing transaction", "invalid encoded string">>)

SignTransaction(transaction, secretKey) ==
  IF secretKey \in ValidSecrets
    THEN Ok([transaction EXCEPT
               !.signatures = Append(@, PublicKeyOf(secretKey))])
    ELSE Fail(<<"Error signing transaction", "invalid encoded string">>)

\* TransactionService.submitTransaction, given the server's answer
SubmitTransactionResult(resp) ==
  LET h == HorizonSubmitTransaction(resp)
  IN  IF h.ok THEN h ELSE Fail(<<"Error submitting transaction">> \o h.err)

(***************************************************************************)
(* A call of sendPayment, addTrustline, createAccount or submitTransaction *)
(* and its progress. loads and submits count the server.loadAccount and    *)
(* server.submitTransaction calls made for it; sent is the envelope handed *)
(* to server.submitTransaction; built is the transaction as build()        *)
(* returned it; stages lists what the call has done.                       *)
(***************************************************************************)
ExecOps == {"sendPayment", "addTrustline", "createAccount"}

NewExecCall(op, sourcePublicKey, secretKey, options) ==
  [op |-> op, source |-> sourcePublicKey, secretKey |-> secretKey,
   options |-> options, pc |-> "loading", loads |-> 1, submits |-> 0,
   loaded |-> Pending, built |-> NoEnvelope, envelope |-> NoEnvelope,
   sent |-> NoEnvelope, resp |-> NoResponse, result |-> Pending,
   stages |-> <<"load">>]

NewSubmitCall(transaction) ==
  [op |-> "submitTransaction", source |-> transaction.source,
   secretKey |-> "none", options |-> [none |-> TRUE], pc |-> "submitting",
   loads |-> 0, submits |-> 1, loaded |-> Pending, built |-> NoEnvelope,
   envelope |-> transaction,
   sent |-> transaction, resp |-> NoResponse, result |-> Pending,
   stages |-> <<"submit">>]

\* the call throws e out of its catch block
Throw(c, e) == [c EXCEPT !.pc = "done", !.result = Fail(e)]

\* Mutant: the transaction is handed to submitTransaction before it is signed.
SignAndSubmit_SubmitUnsigned(c, context, built) ==
  [c EXCEPT !.built = built.val,
            !.envelope = built.val,
            !.stages = c.stages \o <<"built", "submit">>,
            !.pc = "submitting",
            !.submits = c.submits + 1,
            !.sent = built.val]

\* signTransaction(transaction, secretKey), then submitTransaction(signed):
\* the part of sendPayment / addTrustline / createAccount after the build.
SignAndSubmit(c, context, built) ==
  LET signed == SignTransaction(built.val, c.secretKey)
  IN  IF ~signed.ok
        THEN Throw([c EXCEPT !.built = built.val,
                             !.envelope = built.val,
                             !.stages = c.stages \o <<"built">>],
                   <<context>> \o signed.err)
        ELSE [c EXCEPT !.built = built.val,
                       !.envelope = signed.val,
                       !.stages = c.stages \o <<"built", "signed", "submit">>,
                       !.pc = "submitting",
                       !.submits = c.submits + 1,
                       !.sent = signed.val]

\* sendPayment, resumed when server.loadAccount answered resp
SendPaymentResume(c, resp) ==
  LET loaded == HorizonLoadAccount(resp)
      built == CreatePaymentTransaction(loaded, c.options)
      c1 == [c EXCEPT !.loaded = loaded,
                      !.stages = IF loaded.ok THEN Append(@, "loaded") ELSE @]
  IN  IF ~built.ok
        THEN Throw(c1, <<"Error sending payment">> \o built.err)
        ELSE SignAndSubmit(c1, "Error sending payment", built)

\* addTrustline, resumed when server.loadAccount answered resp
AddTrustlineResume(c, resp) ==
  LET loaded == HorizonLoadAccount(resp)
      built == CreateTrustlineTransaction(loaded, c.options)
      c1 == [c EXCEPT !.loaded = loaded,
                      !.stages = IF loaded.ok THEN Append(@, "loaded") ELSE @]
  IN  IF ~built.ok
        THEN Throw(c1, <<"Error adding trustline">> \o built.err)
        ELSE SignAndSubmit(c1, "Error adding trustline", built)

\* createAccount, resumed when server.loadAccount answered resp; it builds the
\* transaction itself.
CreateAccountResume(c, resp) ==
  LET loaded == HorizonLoadAccount(resp)
      c1 == [c EXCEPT !.loaded = loaded,
                      !.stages = IF loaded.ok THEN Append(@, "loaded") ELSE @]
  IN  IF ~loaded.ok
        THEN Throw(c1, <<"Error creating account">> \o loaded.err)
        ELSE IF c.options.startingBalance \notin ValidAmounts
               THEN Throw(c1, <<"Error creating account", "startingBalance argument">>)
               ELSE SignAndSubmit(
                      c1, "Error creating account",
                      Ok(BuildTransaction(
                           loaded.val,
                           [type |-> "createAccount",
                            destination |-> c.options.destination,
                            startingBalance |-> c.options.startingBalance],
                           [type |-> "none"])))

ExecResume(c, resp) ==
  IF c.op = "sendPayment"
    THEN SendPaymentResume(c, resp)
    ELSE IF c.op = "addTrustline"
           THEN AddTrustlineResume(c, resp)
           ELSE CreateAccountResume(c, resp)

\* the message prefix of each method's catch block
CatchContext(op) ==
  IF op = "sendPayment"
    THEN <<"Error sending payment">>
    ELSE IF op = "addTrustline"
           THEN <<"Error adding trustline">>
           ELSE IF op = "createAccount" THEN <<"Error creating account">> ELSE << >>

\* Mutant: a rejected sequence number makes the call load the account again
\* and rebuild.
SubmitResume_RetryBadSeq(c, resp) ==
  LET r == SubmitTransactionResult(resp)
  IN  IF ~r.ok /\ resp.detail = "tx_bad_seq" /\ c.op \in ExecOps
        THEN [c EXCEPT !.pc = "loading", !.loads = c.loads + 1, !.resp = resp,
                       !.stages = <<"load">>]
        ELSE [c EXCEPT !.pc = "done",
                       !.resp = resp,
                       !.stages = Append(c.stages, "answered"),
                       !.result = IF r.ok THEN r ELSE Fail(CatchContext(c.op) \o r.err)]

\* the call, resumed when server.submitTransaction answered resp
SubmitResume(c, resp) ==
  LET r == SubmitTransactionResult(resp)
  IN  [c EXCEPT !.pc = "done",
                !.resp = resp,
                !.stages = Append(c.stages, "answered"),
                !.result = IF r.ok THEN r ELSE Fail(CatchContext(c.op) \o r.err)]

\* Signed envelopes a caller hands to submitTransaction directly.
StandaloneEnvelopes ==
  {[source |-> "GA", sequence |-> n, fee |-> BaseFee, timeout |-> TxTimeout,
    operations |-> <<[type |-> "payment", destination |-> "GB",
                      asset |-> "native", amount |-> "1"]>>,
    memo |-> [type |-> "none"], signatures |-> <<k>>] :
     n \in {1, 2}, k \in {"GA", "GB"}}

StartSendPayment(sourcePublicKey, secretKey, options) ==
  /\ txs' = Append(txs, NewExecCall("sendPayment", sourcePublicKey, secretKey, options))
  /\ UNCHANGED ledger
  /\ UNCHANGED <<evVars, dirVars>>

StartAddTrustline(sourcePublicKey, secretKey, options) ==
  /\ txs' = Append(txs, NewExecCall("addTrustline", sourcePublicKey, secretKey, options))
  /\ UNCHANGED ledger
  /\ UNCHANGED <<evVars, dirVars>>

StartCreateAccount(sourcePublicKey, secretKey, args) ==
  /\ txs' = Append(txs, NewExecCall("createAccount", sourcePublicKey, secretKey, args))
  /\ UNCHANGED ledger
  /\ UNCHANGED <<evVars, dirVars>>

StartSubmitTransaction(transaction) ==
  /\ txs' = Append(txs, NewSubmitCall(transaction))
  /\ UNCHANGED ledger
  /\ UNCHANGED <<evVars, dirVars>>

LoadReturn(i) ==
  /\ txs[i].pc = "loading"
  /\ \E resp \in ServerLoadAccount(ledger, txs[i].source) :
       txs' = [txs EXCEPT ![i] = ExecResume(txs[i], resp)]
  /\ UNCHANGED ledger
  /\ UNCHANGED <<evVars, dirVars>>

\* Mutant: a rejected submission drops the source account from the secure
\* store.
SubmitReturn_DropsAccount(i) ==
  /\ txs[i].pc = "submitting"
  /\ \E resp \in ServerSubmitTransaction(ledger, txs[i].sent) :
       /\ txs' = [txs EXCEPT ![i] = SubmitResume(txs[i], resp)]
       /\ ledger' = IF resp.ok
                      THEN [ledger EXCEPT ![txs[i].sent.source] = @ + 1]
                      ELSE ledger
       /\ keychain' = IF resp.ok
                        THEN keychain
                        ELSE SelectSeq(keychain,
                                       LAMBDA acc : acc.id # txs[i].sent.source)
  /\ UNCHANGED dirCalls
  /\ UNCHANGED evVars

SubmitReturn(i) ==
  /\ txs[i].pc = "submitting"
  /\ \E resp \in ServerSubmitTransaction(ledger, txs[i].sent) :
       /\ txs' = [txs EXCEPT ![i] = SubmitResume(txs[i], resp)]
       /\ ledger' = IF resp.ok
                      THEN [ledger EXCEPT ![txs[i].sent.source] = @ + 1]
                      ELSE ledger
  /\ UNCHANGED <<evVars, dirVars>>

TxNext ==
  \/ \E s \in Sources, k \in SecretKeys, o \in PaymentOptionsSet :
       Len(txs) < MaxCalls /\ StartSendPayment(s, k, o)
  \/ \E s \in Sources, k \in SecretKeys, o \in TrustlineOptionsSet :
       Len(txs) < MaxCalls /\ StartAddTrustline(s, k, o)
  \/ \E s \in Sources, k \in SecretKeys, o \in CreateAccountArgs :
       Len(txs) < MaxCalls /\ StartCreateAccount(s, k, o)
  \/ \E e \in StandaloneEnvelopes :
       Len(txs) < MaxCalls /\ StartSubmitTransaction(e)
  \/ \E i \in 1..Len(txs) : LoadReturn(i)
  \/ \E i \in 1..Len(txs) : SubmitReturn(i)

TxSpec == Init /\ [][TxNext]_vars

(***************************************************************************)
(* signTransaction called on its own, on a transaction that was just built *)
(* or on one that earlier calls have signed. signTransaction is            *)
(* synchronous: one call is one step.                                      *)
(***************************************************************************)
SignKeys == {"SA", "SB", "bad"}

\* Transactions as createPaymentTransaction and createTrustlineTransaction
\* return them.
FreshEnvelopes ==
  {BuildTransaction([id |-> "GA", sequence |-> 0],
                    [type |-> "payment", destination |-> "GB",
                     asset |-> "native", amount |-> "10"],
                    [type |-> "none"]),
   BuildTransaction([id |-> "GA", sequence |-> 0],
                    [type |-> "changeTrust", asset |-> "USD",
                     limit |-> "undefined"],
                    [type |-> "none"])}

\* Mutant: the secret is decoded only after a signature slot was pushed, so a
\* secret that does not decode leaves an empty signature behind.
SignedTransactionObject_PushBeforeDecode(transaction, secretKey) ==
  IF secretKey \in ValidSecrets
    THEN SignTransaction(transaction, secretKey).val
    ELSE [transaction EXCEPT !.signatures = Append(@, "undefined")]

\* The transaction object after signTransaction(transaction, secretKey):
\* transaction.sign(keyPair) adds to the object in place; when
\* Keypair.fromSecret throws, sign was not reached.
SignedTransactionObject(transaction, secretKey) ==
  IF secretKey \in ValidSecrets
    THEN SignTransaction(transaction, secretKey).val
    ELSE transaction

NewSignCall(transaction, secretKey) ==
  [op |-> "signTransaction",
   transaction |-> transaction,
   secretKey |-> secretKey,
   envelope |-> SignedTransactionObject(transaction, secretKey),
   result |-> SignTransaction(transaction, secretKey)]

\* The transactions a caller can hand to signTransaction.
SignableEnvelopes ==
  FreshEnvelopes \cup {txs[i].envelope : i \in 1..Len(txs)}

CallSignTransaction(transaction, secretKey) ==
  /\ txs' = Append(txs, NewSignCall(transaction, secretKey))
  /\ UNCHANGED ledger
  /\ UNCHANGED <<evVars, dirVars>>

SignNext ==
  \E t \in SignableEnvelopes, k \in SignKeys :
    Len(txs) < MaxSigns /\ CallSignTransaction(t, k)

SignSpec == Init /\ [][SignNext]_vars

(***************************************************************************)
(* KeyManager (the account directory) and StellarWallet.loadAccountData.   *)
(* The secure store holds one JSON list of accounts; a store that holds    *)
(* nothing reads as the empty list. Every method is async: it reads the    *)
(* list (getAccounts), and some write a new list (setGenericPassword); the *)
(* secure store serves each read and each write at some moment of its own, *)
(* so calls that overlap interleave at these moments. A read or write of   *)
(* the secure store may fail.                                              *)
(***************************************************************************)
NoAccount == [none |-> TRUE]

DirectoryIds == {"GA", "GB"}

\* AccountData that callers hand to storeAccount.
StoreInputs ==
  {[id |-> "GA", name |-> "Main", keyPair |-> "SA"],
   [id |-> "GA", name |-> "Renamed", keyPair |-> "SA"],
   [id |-> "GB", name |-> "Savings", keyPair |-> "SB"]}

\* accountRecord.balances as the server can report them.
BalanceSnapshots == {<<"100">>, <<"40", "7">>}

DirTrue == Ok([bool |-> TRUE])

DirFalse == Ok([bool |-> FALSE])

\* KeyManager.getAccounts: the stored list, or [] when the read failed.
GetAccounts(kc, readOk) == IF readOk THEN kc ELSE << >>

\* accounts.findIndex(acc => acc.id === id), 0 for "not found"
FindIndex(accounts, id) ==
  IF \E k \in 1..Len(accounts) : accounts[k].id = id
    THEN CHOOSE k \in 1..Len(accounts) :
           /\ accounts[k].id = id
           /\ \A j \in 1..(k - 1) : accounts[j].id # id
    ELSE 0

\* Mutant: storeAccount pushes the account whether or not its id is stored.
Upsert_AlwaysPush(accounts, account) == Append(accounts, account)

\* storeAccount: replace the account with the same id, or push
Upsert(accounts, account) ==
  IF FindIndex(accounts, account.id) > 0
    THEN [accounts EXCEPT ![FindIndex(accounts, account.id)] = account]
    ELSE Append(accounts, account)

\* getAccount: accounts.find(acc => acc.id === id) || null
FindAccount(accounts, id) ==
  IF FindIndex(accounts, id) > 0
    THEN accounts[FindIndex(accounts, id)]
    ELSE NoAccount

\* deleteAccount: accounts.filter(acc => acc.id !== id)
FilterAccounts(accounts, id) == SelectSeq(accounts, LAMBDA acc : acc.id # id)

\* loadAccountData: { ...storedAccount, balances: accountRecord.balances }
WithBalances(storedAccount, balances) ==
  [f \in DOMAIN storedAccount \cup {"balances"} |->
     IF f = "balances" THEN balances ELSE storedAccount[f]]

NewDirCall(op, id, account) ==
  [op |-> op, id |-> id, account |-> account, pc |-> "reading",
   toWrite |-> << >>, stored |-> NoAccount, updated |-> NoAccount,
   result |-> Pending]

\* The call, resumed with the list that getAccounts returned, up to its next
\* await or its end.
AfterRead(c, accounts) ==
  IF c.op = "storeAccount"
    THEN [c EXCEPT !.pc = "writing", !.toWrite = Upsert(accounts, c.account)]
    ELSE IF c.op = "deleteAccount"
      THEN IF Len(accounts) = Len(FilterAccounts(accounts, c.id))
             THEN [c EXCEPT !.pc = "done", !.result = DirFalse]
             ELSE [c EXCEPT !.pc = "writing",
                            !.toWrite = FilterAccounts(accounts, c.id)]
      ELSE IF c.op = "getAccount"
        THEN [c EXCEPT !.pc = "done", !.result = Ok(FindAccount(accounts, c.id))]
        ELSE IF c.pc = "reading"
          \* loadAccountData after keyManager.getAccount(publicKey)
          THEN IF FindAccount(accounts, c.id) = NoAccount
                 THEN [c EXCEPT !.pc = "done",
                                !.result = Fail(<<"Error loading account data",
                                                  "Account not found">>)]
                 ELSE [c EXCEPT !.pc = "loading",
                                !.stored = FindAccount(accounts, c.id)]
          \* loadAccountData inside keyManager.storeAccount(updatedAccount)
          ELSE [c EXCEPT !.pc = "writing", !.toWrite = Upsert(accounts, c.updated)]

\* loadAccountData, resumed when server.loadAccount answered resp, with the
\* balances of the account record when there is one.
AfterLoad(c, resp, balances) ==
  LET accountRecord == HorizonLoadAccount(resp)
  IN  IF ~accountRecord.ok
        THEN [c EXCEPT !.pc = "done",
                       !.result = Fail(<<"Error loading account data">>
                                         \o accountRecord.err)]
        ELSE [c EXCEPT !.pc = "storeReading",
                       !.updated = WithBalances(c.stored, balances)]

\* The call, resumed when setGenericPassword has resolved or rejected.
\* storeAccount and deleteAccount return whether the write succeeded;
\* loadAccountData does not look at what storeAccount returned.
AfterWrite(c, writeOk) ==
  [c EXCEPT !.pc = "done",
            !.result = IF c.op = "loadAccountData"
                         THEN Ok(c.updated)
                         ELSE IF writeOk THEN DirTrue ELSE DirFalse]

StartStoreAccount(account) ==
  /\ dirCalls' = Append(dirCalls, NewDirCall("storeAccount", account.id, account))
  /\ UNCHANGED keychain
  /\ UNCHANGED <<evVars, txVars>>

StartGetAccount(id) ==
  /\ dirCalls' = Append(dirCalls, NewDirCall("getAccount", id, NoAccount))
  /\ UNCHANGED keychain
  /\ UNCHANGED <<evVars, txVars>>

StartDeleteAccount(id) ==
  /\ dirCalls' = Append(dirCalls, NewDirCall("deleteAccount", id, NoAccount))
  /\ UNCHANGED keychain
  /\ UNCHANGED <<evVars, txVars>>

StartLoadAccountData(publicKey) ==
  /\ dirCalls' = Append(dirCalls, NewDirCall("loadAccountData", publicKey, NoAccount))
  /\ UNCHANGED keychain
  /\ UNCHANGED <<evVars, txVars>>

\* The secure store serves the getGenericPassword of call i.
KeychainRead(i) ==
  /\ dirCalls[i].pc \in {"reading", "storeReading"}
  /\ \E readOk \in BOOLEAN :
       dirCalls' = [dirCalls EXCEPT
                      ![i] = AfterRead(dirCalls[i], GetAccounts(keychain, readOk))]
  /\ UNCHANGED keychain
  /\ UNCHANGED <<evVars, txVars>>

\* server.loadAccount answers call i.
DirLoadReturn(i) ==
  /\ dirCalls[i].pc = "loading"
  /\ \E resp \in ServerLoadAccount(ledger, dirCalls[i].id), b \in BalanceSnapshots :
       dirCalls' = [dirCalls EXCEPT ![i] = AfterLoad(dirCalls[i], resp, b)]
  /\ UNCHANGED keychain
  /\ UNCHANGED <<evVars, txVars>>

\* The secure store serves the setGenericPassword of call i.
KeychainWrite(i) ==
  /\ dirCalls[i].pc = "writing"
  /\ \E writeOk \in BOOLEAN :
       /\ dirCalls' = [dirCalls EXCEPT ![i] = AfterWrite(dirCalls[i], writeOk)]
       /\ keychain' = IF writeOk THEN dirCalls[i].toWrite ELSE keychain
  /\ UNCHANGED <<evVars, txVars>>

DirNext ==
  \/ \E a \in StoreInputs : Len(dirCalls) < MaxDirCalls /\ StartStoreAccount(a)
  \/ \E id \in DirectoryIds : Len(dirCalls) < MaxDirCalls /\ StartGetAccount(id)
  \/ \E id \in DirectoryIds : Len(dirCalls) < MaxDirCalls /\ StartDeleteAccount(id)
  \/ \E id \in DirectoryIds : Len(dirCalls) < MaxDirCalls /\ StartLoadAccountData(id)
  \/ \E i \in 1..Len(dirCalls) : KeychainRead(i)
  \/ \E i \in 1..Len(dirCalls) : DirLoadReturn(i)
  \/ \E i \in 1..Len(dirCalls) : KeychainWrite(i)

DirSpec == Init /\ [][DirNext]_vars

(***************************************************************************)
(* The wallet on a device whose secure store holds accounts from earlier   *)
(* sessions, running the TransactionService calls.                         *)
(***************************************************************************)
StoredKeychains ==
  {<<WithBalances([id |-> "GA", name |-> "Main", keyPair |-> "SA"], <<"100">>)>>,
   <<[id |-> "GB", name |-> "Savings", keyPair |-> "SB"],
     WithBalances([id |-> "GA", name |-> "Main", keyPair |-> "SA"], <<"40", "7">>)>>}

WalletInit ==
  /\ listeners = [t \in {} |-> << >>]
  /\ closeCallbacks = << >>
  /\ streams = << >>
  /\ ret = [op |-> "constructor", arg |-> "", out |-> "returned"]
  /\ calls = << >>
  /\ emitted = << >>
  /\ invoked = << >>
  /\ registeredEarly = {}
  /\ txs = << >>
  /\ ledger = [a \in FundedAccounts |-> 0]
  /\ keychain \in StoredKeychains
  /\ dirCalls = << >>

WalletSpec == WalletInit /\ [][TxNext]_vars

(***************************************************************************)
(* Properties of the subscription registry.                                *)
(***************************************************************************)
\* The subscription id (event class, account) of a subscribe operation.
SubscribeOps == {"subscribeToAccount", "subscribeToPayments"}

KeyOf(op, publicKey) ==
  IF op = "subscribeToAccount"
    THEN "account-" \o publicKey
    ELSE "payments-" \o publicKey

KindOf(op) == IF op = "subscribeToAccount" THEN "account" ELSE "payments"

StreamsOfKey(kind, a) ==
  {s \in 1..Len(streams) : streams[s].kind = kind /\ streams[s].account = a}

\* C1: whatever subscribe/unsubscribe/unsubscribeAll calls were made, at most
\* one underlying stream is open for each (event-class, accountId) key.
C1_AtMostOneOpenStreamPerKey ==
  \A kind \in {"account", "payments"}, a \in Accounts :
    Cardinality({s \in StreamsOfKey(kind, a) : streams[s].open}) <= 1

\* C1 witness: subscribeToAccount was repeated for the same account: the
\* stream of the first call is closed and the stream of the last one is open.
C1_Witness ==
  /\ ret.op = "subscribeToAccount"
  /\ ret.out = "account-" \o ret.arg
  /\ Cardinality(StreamsOfKey("account", ret.arg)) >= 2
  /\ Cardinality({s \in StreamsOfKey("account", ret.arg) : streams[s].open}) = 1

C3_UnsubscribeKnownRemoves ==
  [][\A id \in SubscriptionIds :
       (ret'.op = "unsubscribe" /\ ret'.arg = id /\ MapHas(closeCallbacks, id))
         => /\ ret'.out = "true"
            /\ calls' = <<[fn |-> "close", s |-> MapGet(closeCallbacks, id)]>>
            /\ ~MapHas(closeCallbacks', id)
    ]_vars

\* C4: unsubscribe(id) for an id that is not registered returns false, calls
\* no close function and changes neither the subscription map nor the
\* listener sets.
C4_UnsubscribeUnknownNoEffect ==
  [][\A id \in SubscriptionIds :
       (ret'.op = "unsubscribe" /\ ret'.arg = id /\ ~MapHas(closeCallbacks, id))
         => /\ ret'.out = "false"
            /\ calls' = << >>
            /\ closeCallbacks' = closeCallbacks
            /\ listeners' = listeners
            /\ streams' = streams
            /\ invoked' = << >>
    ]_vars

\* C4 witness: unsubscribe returned false while another subscription was
\* registered and a listener was registered.
C4_Witness ==
  /\ ret.op = "unsubscribe"
  /\ ret.out = "false"
  /\ ~MapHas(closeCallbacks, ret.arg)
  /\ Len(closeCallbacks) >= 1
  /\ \E t \in DOMAIN listeners : Len(listeners[t]) >= 1

\* C5 (as stated): unsubscribeAll invokes the close function of every
\* registered subscription exactly once and leaves the registry empty.
C5_UnsubscribeAllClosesEach ==
  [][ret'.op = "unsubscribeAll"
       => /\ Len(calls') = Len(closeCallbacks)
          /\ \A i \in 1..Len(closeCallbacks) :
               calls'[i] = [fn |-> "close", s |-> closeCallbacks[i].close]
          /\ closeCallbacks' = << >>
    ]_vars

\* C6 (as stated): unsubscribeAll never raises; when a close function throws,
\* every other close function is still invoked and every entry is removed.
C6_UnsubscribeAllNeverRaises ==
  [][ret'.op = "unsubscribeAll"
       => /\ ret'.out = "returned"
          /\ \A s \in MapValues(closeCallbacks) :
               \E i \in 1..Len(calls') : calls'[i] = [fn |-> "close", s |-> s]
          /\ MapKeys(closeCallbacks') = {}
    ]_vars

\* C10: a message on the payments stream of accountId produces exactly one
\* event: PAYMENT_RECEIVED when the message's `to` equals accountId, and
\* PAYMENT_SENT for any other `to`, a missing one included.
C10_PaymentClassification ==
  \A a \in Accounts :
    (ret.op = "onmessage" /\ ret.arg = "payments-" \o a)
      => /\ Len(emitted) = 1
         /\ emitted[1].payload \in PaymentMessages
         /\ \/ /\ "to" \in DOMAIN emitted[1].payload
               /\ emitted[1].payload.to = a
               /\ emitted[1].type = "PAYMENT_RECEIVED"
            \/ /\ "to" \in DOMAIN emitted[1].payload
               /\ emitted[1].payload.to # a
               /\ emitted[1].type = "PAYMENT_SENT"
            \/ /\ "to" \notin DOMAIN emitted[1].payload
               /\ emitted[1].type = "PAYMENT_SENT"
         /\ \A i \in 1..Len(invoked) : invoked[i].event = emitted[1]

\* C10 witness: a payment addressed to the subscribed account was delivered
\* to a registered listener as PAYMENT_RECEIVED.
C10_Witness ==
  /\ ret.op = "onmessage"
  /\ Len(emitted) = 1
  /\ emitted[1].type = "PAYMENT_RECEIVED"
  /\ Len(invoked) = 1
  /\ invoked[1].event.payload.to = "GA"
  /\ ret.arg = "payments-GA"

(***************************************************************************)
(* Properties of the transaction pipeline.                                 *)
(***************************************************************************)
\* The source account could not be loaded, or the intent is one the SDK's
\* operation constructors reject.
BuildFails(c) ==
  \/ ~c.loaded.ok
  \/ c.op = "sendPayment" /\ c.options.amount = "-1"
  \/ c.op = "addTrustline" /\ c.options.limit = "-1"
  \/ c.op = "createAccount" /\ c.options.startingBalance = "-1"

SignFails(c) == c.secretKey = "bad"

\* C7: in sendPayment, addTrustline and createAccount, when the build stage
\* (the load of the source account included) or the sign stage fails, the
\* server's submitTransaction is never called for that call.
C7_NoSubmitAfterFailedBuildOrSign ==
  \A i \in 1..Len(txs) :
    LET c == txs[i]
    IN  (c.op \in ExecOps /\ c.pc # "loading" /\ (BuildFails(c) \/ SignFails(c)))
          => /\ c.submits = 0
             /\ c.sent = NoEnvelope
             /\ c.pc = "done"
             /\ ~c.result.ok
             /\ \A k \in 1..Len(c.stages) : c.stages[k] # "submit"

\* C7 witness: a call whose build succeeded and whose sign failed has ended
\* without a submission.
C7_Witness ==
  \E i \in 1..Len(txs) :
    /\ txs[i].op = "sendPayment"
    /\ txs[i].stages = <<"load", "loaded", "built">>
    /\ txs[i].secretKey = "bad"
    /\ txs[i].pc = "done"
    /\ txs[i].submits = 0
    /\ txs[i].result.err[2] = "Error signing transaction"

ExecOrder == <<"load", "loaded", "built", "signed", "submit", "answered">>

IsPrefix(s, u) == Len(s) <= Len(u) /\ \A k \in 1..Len(s) : s[k] = u[k]

OperationTypeOf(op) ==
  IF op = "sendPayment"
    THEN "payment"
    ELSE IF op = "addTrustline" THEN "changeTrust" ELSE "createAccount"

\* C8: within one call of sendPayment, addTrustline or createAccount the
\* stages follow one another: load, build, sign, submit; and the envelope
\* handed to submit is the one this call built from its own source account
\* and intent and signed with its own key.
C8_StagesInOrder ==
  \A i \in 1..Len(txs) :
    LET c == txs[i]
    IN  c.op \in ExecOps
          => /\ IsPrefix(c.stages, ExecOrder)
             /\ c.submits > 0
                  => /\ c.loaded.ok
                     /\ c.sent = c.envelope
                     /\ c.sent.source = c.source
                     /\ c.sent.sequence = c.loaded.val.sequence + 1
                     /\ c.sent.signatures = <<"GA">>
                     /\ c.secretKey = "SA"
                     /\ Len(c.sent.operations) = 1
                     /\ c.sent.operations[1].type = OperationTypeOf(c.op)
                     /\ c.op = "sendPayment"
                          => /\ c.sent.operations[1].amount = c.options.amount
                             /\ c.sent.operations[1].destination = c.options.destination
                     /\ c.op = "createAccount"
                          => c.sent.operations[1].startingBalance = c.options.startingBalance

\* C8 witness: two calls are in flight together and one of them has been
\* through every stage and was accepted.
C8_Witness ==
  /\ Len(txs) = 2
  /\ txs[1].op = "sendPayment"
  /\ txs[2].op = "addTrustline"
  /\ txs[2].pc = "submitting"
  /\ txs[1].stages = ExecOrder
  /\ txs[1].result.ok

\* C9: no call retries: each call makes at most one server.loadAccount and at
\* most one server.submitTransaction call (submitTransaction alone makes no
\* load), and when the server fails the submission the call ends as a failure
\* that carries the server's reason.
C9_NoRetry ==
  \A i \in 1..Len(txs) :
    LET c == txs[i]
    IN  /\ c.loads <= 1
        /\ c.submits <= 1
        /\ c.op = "submitTransaction" => c.loads = 0
        /\ (c.resp # NoResponse /\ ~c.resp.ok)
             => /\ c.pc = "done"
                /\ ~c.result.ok
                /\ Len(c.result.err) >= 2
                /\ c.result.err[Len(c.result.err)] = c.resp.detail
                /\ c.result.err[Len(c.result.err)] \in
                     {"tx_bad_seq", "tx_bad_auth", "NetworkError"}

\* C9 witness: two payments were built on the same sequence number; the ledger
\* accepted the first and rejected the second with tx_bad_seq, and the second
\* call ended as a failure after one load and one submission.
C9_Witness ==
  /\ Len(txs) = 2
  /\ txs[1].op = "sendPayment"
  /\ txs[1].result.ok
  /\ txs[2].op = "sendPayment"
  /\ txs[2].pc = "done"
  /\ txs[2].resp.detail = "tx_bad_seq"
  /\ txs[2].loads = 1
  /\ txs[2].submits = 1
  /\ ~txs[2].result.ok

(***************************************************************************)
(* Properties of the listener fan-out.                                     *)
(***************************************************************************)
\* The callbacks registered for event type t, none when the type has no Set.
ListenersOf(t) == IF t \in DOMAIN listeners THEN listeners[t] ELSE << >>

InvokedWith(cb, eventData) ==
  \E j \in 1..Len(invoked) :
    invoked[j].callback = cb /\ invoked[j].event = eventData

\* C11: when a listener throws while an event is fanned out, every other
\* listener registered for the event's type is still invoked with the same
\* event, and the stream handler that emitted the event returns normally.
C11_ListenerFailureIsolated ==
  ret.op = "onmessage"
    => /\ ret.out = "returned"
       /\ \A i \in 1..Len(invoked) :
            invoked[i].threw
              => \A cb \in Callbacks :
                   (SetHas(ListenersOf(emitted[1].type), cb)
                      /\ cb # invoked[i].callback)
                     => InvokedWith(cb, emitted[1])

\* C11 witness: the first listener called for an account update threw and the
\* listener registered after it was called with the same event.
C11_Witness ==
  /\ ret.op = "onmessage"
  /\ ret.out = "returned"
  /\ Len(invoked) = 2
  /\ invoked[1].callback = "cb2"
  /\ invoked[1].threw
  /\ invoked[2].callback = "cb1"
  /\ ~invoked[2].threw
  /\ invoked[2].event = emitted[1]
  /\ emitted[1].type = "ACCOUNT_UPDATED"

\* C12: a message of an open stream produces one event, and every callback
\* registered for the event's type at that moment is invoked with it exactly
\* once, in whatever order, and no other callback is; when no callback is
\* registered for the type the event is dropped and the handler returns.
C12_AllListenersInvoked ==
  ret.op = "onmessage"
    => /\ Len(emitted) = 1
       /\ Len(invoked) = Len(ListenersOf(emitted[1].type))
       /\ \A cb \in Callbacks :
            SetHas(ListenersOf(emitted[1].type), cb)
              <=> InvokedWith(cb, emitted[1])
       /\ \A i, j \in 1..Len(invoked) :
            invoked[i].callback = invoked[j].callback => i = j
       /\ \A i \in 1..Len(invoked) : invoked[i].event = emitted[1]
       /\ ListenersOf(emitted[1].type) = << >>
            => invoked = << >> /\ ret.out = "returned"

\* C12 witness: a received payment was delivered to the two callbacks
\* registered for PAYMENT_RECEIVED while a callback registered for another
\* type was left alone.
C12_Witness ==
  /\ ret.op = "onmessage"
  /\ emitted[1].type = "PAYMENT_RECEIVED"
  /\ Len(invoked) = 2
  /\ invoked[1].callback = "cb1"
  /\ invoked[2].callback = "cb2"
  /\ ListenersOf("ACCOUNT_UPDATED") # << >>

\* C13: a callback that addEventListener registered before the first
\* subscription was opened, and that was not removed since, is in the listener
\* set of its type, and is invoked with every event of that type that a
\* stream opened later produces.
C13_EarlyListenerReceives ==
  \A t \in EventType, cb \in Callbacks :
    <<t, cb>> \in registeredEarly
      => /\ SetHas(ListenersOf(t), cb)
         /\ (ret.op = "onmessage" /\ emitted[1].type = t)
              => InvokedWith(cb, emitted[1])

\* C13 witness: cb1 was registered for account updates before any
\* subscription, and an account stream opened afterwards delivered to it.
C13_Witness ==
  /\ <<"ACCOUNT_UPDATED", "cb1">> \in registeredEarly
  /\ ret.op = "onmessage"
  /\ ret.arg = "account-GA"
  /\ emitted[1].type = "ACCOUNT_UPDATED"
  /\ InvokedWith("cb1", emitted[1])

LifecycleOps ==
  {"subscribeToAccount", "subscribeToPayments", "unsubscribe", "unsubscribeAll"}

ListenerOps == {"addEventListener", "removeEventListener"}

\* C14: subscribeToAccount, subscribeToPayments, unsubscribe and
\* unsubscribeAll leave the listener sets as they were, whether they return or
\* throw; addEventListener and removeEventListener leave the subscription map
\* as it was and call nothing on the transport.
C14_ListenersAndSubscriptionsIndependent ==
  [][/\ ret'.op \in LifecycleOps => listeners' = listeners
     /\ ret'.op \in ListenerOps
          => /\ closeCallbacks' = closeCallbacks
             /\ streams' = streams
             /\ calls' = << >>
    ]_vars

\* C14 witness: cb1 was registered before the first subscription; that
\* subscription's stream was closed, a second stream was opened, and a
\* payment received on the second stream was delivered to cb1.
C14_Witness ==
  /\ <<"PAYMENT_RECEIVED", "cb1">> \in registeredEarly
  /\ Len(streams) = 2
  /\ ~streams[1].open
  /\ streams[2].open
  /\ Len(closeCallbacks) = 1
  /\ ret.op = "onmessage"
  /\ emitted[1].type = "PAYMENT_RECEIVED"
  /\ InvokedWith("cb1", emitted[1])

\* The subscription id under which stream s was opened.
SubscriptionIdOfStream(s) ==
  IF streams[s].kind = "account"
    THEN "account-" \o streams[s].account
    ELSE "payments-" \o streams[s].account

\* C15 (as stated), for the event that directly follows the cancellation: when
\* an operation has invoked the close function of stream s, the next step is
\* not a message of stream s being delivered to a listener. (At most one
\* stream is open per subscription id, so a message handled under the id of
\* s while s is open is a message of s.)
C15_NoDeliveryAfterCancel ==
  [][\A i \in 1..Len(calls) :
       calls[i].fn = "close"
         => ~ /\ ret'.op = "onmessage"
              /\ ret'.arg = SubscriptionIdOfStream(calls[i].s)
              /\ streams'[calls[i].s].open
              /\ invoked' # << >>
    ]_vars

\* C16 (as stated): in every reachable state a subscription id has an entry in
\* the registry if and only if a stream opened for that id is open, and the
\* entry's close function is that stream's.
C16_EntryIffOpenStream ==
  \A id \in SubscriptionIds :
    LET open == {s \in OpenStreams(streams) : SubscriptionIdOfStream(s) = id}
    IN  /\ MapHas(closeCallbacks, id) <=> open # {}
        /\ MapHas(closeCallbacks, id) => open = {MapGet(closeCallbacks, id)}

\* C17: whatever the registry holds and whatever was called before, the id
\* that subscribeToAccount(a) returns is "account-" followed by a and the id
\* that subscribeToPayments(a) returns is "payments-" followed by a; the two
\* differ, the returned id is registered, and every entry under another id,
\* the other subscription of the same account included, is left as it was.
C17_DeterministicIds ==
  [][\A op \in SubscribeOps, a \in Accounts :
       (ret'.op = op /\ ret'.arg = a /\ ret'.out # "throw")
         => LET id == IF op = "subscribeToAccount"
                        THEN "account-" \o a
                        ELSE "payments-" \o a
            IN  /\ ret'.out = id
                /\ "account-" \o a # "payments-" \o a
                /\ MapHas(closeCallbacks', id)
                /\ streams'[MapGet(closeCallbacks', id)] =
                     [kind |-> KindOf(op), account |-> a, open |-> TRUE]
                /\ \A other \in MapKeys(closeCallbacks) \ {id} :
                     /\ MapHas(closeCallbacks', other)
                     /\ MapGet(closeCallbacks', other) = MapGet(closeCallbacks, other)
    ]_vars

\* C17 witness: subscribeToPayments("GA") returned "payments-GA" while
\* "account-GA" was registered, and the two subscriptions hold two open streams.
C17_Witness ==
  /\ ret.op = "subscribeToPayments"
  /\ ret.arg = "GA"
  /\ ret.out = "payments-GA"
  /\ MapHas(closeCallbacks, "account-GA")
  /\ MapHas(closeCallbacks, "payments-GA")
  /\ MapGet(closeCallbacks, "account-GA") # MapGet(closeCallbacks, "payments-GA")
  /\ streams[MapGet(closeCallbacks, "account-GA")].open
  /\ streams[MapGet(closeCallbacks, "payments-GA")].open

StreamHandlerOps == {"onmessage", "onerror"}

\* C24: the onmessage and onerror handlers of a stream change neither the
\* subscription map nor the listener sets and call nothing on the transport;
\* the subscription map changes only in subscribeToAccount,
\* subscribeToPayments, unsubscribe and unsubscribeAll, and the listener sets
\* only in addEventListener and removeEventListener.
C24_RegistryChangesOnlyByCalls ==
  [][/\ ret'.op \in StreamHandlerOps
          => /\ closeCallbacks' = closeCallbacks
             /\ listeners' = listeners
             /\ streams' = streams
             /\ calls' = << >>
     /\ closeCallbacks' # closeCallbacks => ret'.op \in LifecycleOps
     /\ listeners' # listeners => ret'.op \in ListenerOps
    ]_vars

\* C24 witness: a stream delivered a message to the two listeners of its
\* event type while two subscriptions were registered.
C24_Witness ==
  /\ ret.op = "onmessage"
  /\ Len(invoked) = 2
  /\ Len(closeCallbacks) = 2
  /\ Len(ListenersOf(emitted[1].type)) = 2

\* The subscription id that a subscribe or unsubscribe call works on.
KeyOfCall(r) == IF r.op = "unsubscribe" THEN r.arg ELSE KeyOf(r.op, r.arg)

\* C25: subscribeToAccount, subscribeToPayments and unsubscribe work on one
\* subscription id only: for every other id, the other event class of the
\* same account included, the entry is neither added, removed nor replaced,
\* its close function is not invoked and its stream is left as it is,
\* whether the call returns or throws.
C25_KeysIndependent ==
  [][ret'.op \in SubscribeOps \cup {"unsubscribe"}
       => \A other \in SubscriptionIds \ {KeyOfCall(ret')} :
            /\ MapHas(closeCallbacks', other) <=> MapHas(closeCallbacks, other)
            /\ MapHas(closeCallbacks, other)
                 => /\ MapGet(closeCallbacks', other) = MapGet(closeCallbacks, other)
                    /\ streams'[MapGet(closeCallbacks, other)] =
                         streams[MapGet(closeCallbacks, other)]
                    /\ \A i \in 1..Len(calls') :
                         calls'[i].s # MapGet(closeCallbacks, other)
    ]_vars

\* C25 witness: unsubscribe("account-GA") returned true while the payments
\* subscription of GA and the account subscription of GB stay registered on
\* their open streams.
C25_Witness ==
  /\ ret.op = "unsubscribe"
  /\ ret.arg = "account-GA"
  /\ ret.out = "true"
  /\ MapKeys(closeCallbacks) = {"payments-GA", "account-GB"}
  /\ \A i \in 1..Len(closeCallbacks) : streams[closeCallbacks[i].close].open

\* The callbacks that the listener table ls holds for event type t.
ListenersIn(ls, t) == IF t \in DOMAIN ls THEN ls[t] ELSE << >>

\* C28: addEventListener(t, cb) leaves cb in the collection of t, which has
\* size 1 when it was empty or absent before; removeEventListener(t, cb)
\* leaves the collection without cb, of size 0 when cb was its only member,
\* and changes nothing when cb was not registered; and an event is only ever
\* delivered to callbacks that are in the collection of its type, so a
\* removed callback is not invoked for later events.
C28_AddRemoveRoundTrip ==
  [][/\ ret'.op = "addEventListener"
          => /\ SetHas(ListenersIn(listeners', ret'.arg), ret'.callback)
             /\ Len(ListenersIn(listeners, ret'.arg)) = 0
                  => ListenersIn(listeners', ret'.arg) = <<ret'.callback>>
     /\ ret'.op = "removeEventListener"
          => /\ ~SetHas(ListenersIn(listeners', ret'.arg), ret'.callback)
             /\ ListenersIn(listeners, ret'.arg) = <<ret'.callback>>
                  => Len(ListenersIn(listeners', ret'.arg)) = 0
             /\ ~SetHas(ListenersIn(listeners, ret'.arg), ret'.callback)
                  => listeners' = listeners
     /\ \A j \in 1..Len(invoked') :
          SetHas(ListenersIn(listeners', invoked'[j].event.type),
                 invoked'[j].callback)
    ]_vars

\* Witness: a payment event arrives after the only listener of its type was
\* added and removed again: the type still has its collection, the
\* collection is empty, and no callback was invoked.
C28_Witness ==
  /\ ret.op = "onmessage"
  /\ Len(emitted) = 1
  /\ emitted[1].type = PAYMENT_RECEIVED
  /\ PAYMENT_RECEIVED \in DOMAIN listeners
  /\ Len(listeners[PAYMENT_RECEIVED]) = 0
  /\ Len(invoked) = 0

\* C29 (as stated): what a listener receives for an emitted event is an
\* object with the type of the event, its payload unchanged, and a timestamp.
C29_DeliveredEventHasTimestamp ==
  \A j \in 1..Len(invoked) :
    /\ Len(emitted) = 1
    /\ invoked[j].event.type = emitted[1].type
    /\ invoked[j].event.payload = emitted[1].payload
    /\ "timestamp" \in DOMAIN invoked[j].event

\* C34: when the close function of a subscription throws during
\* unsubscribe(id), or during the unsubscribe that subscribeToAccount and
\* subscribeToPayments begin with, the call throws to its caller, the
\* subscription map is what it was, with the entry of that id in place, and
\* no stream is opened; a close function that was called and left its stream
\* open has thrown, so such a call always ends this way.
C34_CloseFailurePropagates ==
  [][ret'.op \in SubscribeOps \cup {"unsubscribe"}
       => /\ ret'.out = "throw"
               => /\ closeCallbacks' = closeCallbacks
                  /\ MapHas(closeCallbacks', KeyOfCall(ret'))
                  /\ listeners' = listeners
                  /\ Len(streams') = Len(streams)
                  /\ calls' = <<[fn |-> "close",
                                 s |-> MapGet(closeCallbacks, KeyOfCall(ret'))]>>
          /\ (/\ Len(calls') > 0
              /\ calls'[1].fn = "close"
              /\ streams'[calls'[1].s].open)
               => ret'.out = "throw"
    ]_vars

\* Witness: subscribeToAccount("GA") on an existing account subscription
\* whose close function threw: the one stream there was is the only one, and
\* the entry still names it.
C34_Witness ==
  /\ ret.op = "subscribeToAccount"
  /\ ret.arg = "GA"
  /\ ret.out = "throw"
  /\ Len(streams) = 1
  /\ MapHas(closeCallbacks, "account-GA")
  /\ MapGet(closeCallbacks, "account-GA") = 1

\* C35: a message on an account stream is emitted as ACCOUNT_UPDATED and a
\* message on a payments stream as PAYMENT_RECEIVED or PAYMENT_SENT; the
\* callbacks invoked for it are exactly those registered for the type of the
\* emitted event, each with an event of that type, so a callback registered
\* only for another type is not invoked.
C35_ListenersGetOnlyTheirType ==
  ret.op = "onmessage"
    => /\ Len(emitted) = 1
       /\ ret.arg \in {AccountSubscriptionId(a) : a \in Accounts}
            => emitted[1].type = ACCOUNT_UPDATED
       /\ ret.arg \in {PaymentsSubscriptionId(a) : a \in Accounts}
            => emitted[1].type \in {PAYMENT_RECEIVED, PAYMENT_SENT}
       /\ Len(invoked) = Len(ListenersOf(emitted[1].type))
       /\ \A j \in 1..Len(invoked) :
            /\ invoked[j].event.type = emitted[1].type
            /\ invoked[j].callback = ListenersOf(emitted[1].type)[j]

\* Witness: an account message arrived while cb1 was registered for
\* ACCOUNT_UPDATED and cb2 only for PAYMENT_RECEIVED: cb1 alone was invoked.
C35_Witness ==
  /\ ret.op = "onmessage"
  /\ ret.arg = "account-GA"
  /\ ListenersOf(ACCOUNT_UPDATED) = <<"cb1">>
  /\ ListenersOf(PAYMENT_RECEIVED) = <<"cb2">>
  /\ Len(invoked) = 1
  /\ invoked[1].callback = "cb1"
  /\ invoked[1].event.type = ACCOUNT_UPDATED

\* How many of the invocations were made to callback cb.
TimesInvoked(invocations, cb) ==
  Cardinality({j \in 1..Len(invocations) : invocations[j].callback = cb})

\* C36: registering a callback for a type that already has it changes
\* nothing, so no collection ever holds a callback twice; every event is
\* delivered exactly once to each callback registered for its type; and one
\* removeEventListener leaves the callback unregistered however often it was
\* added.
C36_RegistrationIdempotent ==
  [][/\ (/\ ret'.op = "addEventListener"
         /\ SetHas(ListenersIn(listeners, ret'.arg), ret'.callback))
          => listeners' = listeners
     /\ \A t \in DOMAIN listeners' : \A cb \in Callbacks :
          Cardinality({k \in 1..Len(listeners'[t]) : listeners'[t][k] = cb}) <= 1
     /\ ret'.op = "onmessage"
          => \A cb \in Callbacks :
               TimesInvoked(invoked', cb) =
                 IF SetHas(ListenersIn(listeners', emitted'[1].type), cb) THEN 1 ELSE 0
     /\ ret'.op = "removeEventListener"
          => \A k \in 1..Len(ListenersIn(listeners', ret'.arg)) :
               listeners'[ret'.arg][k] # ret'.callback
    ]_vars

\* Witness: addEventListener(ACCOUNT_UPDATED, cb1) was the last call while
\* cb1 stands before cb2 in the collection: cb1 was registered before cb2
\* was, and registering it again left one registration, in its old place.
C36_Witness ==
  /\ ret.op = "addEventListener"
  /\ ret.arg = ACCOUNT_UPDATED
  /\ ret.callback = "cb1"
  /\ ListenersOf(ACCOUNT_UPDATED) = <<"cb1", "cb2">>

\* C37: when the transport reports a stream error for a subscription whose
\* entry names an open stream, no listener is invoked and nothing is
\* emitted, the subscription map and the listeners are what they were and
\* the stream stays open; and a message that arrives on that subscription
\* directly after the error is delivered to every listener of its type.
C37_StreamErrorKeepsSubscription ==
  [][/\ (/\ ret'.op = "onerror"
         /\ MapHas(closeCallbacks, ret'.arg)
         /\ streams[MapGet(closeCallbacks, ret'.arg)].open)
          => /\ Len(invoked') = 0
             /\ Len(emitted') = 0
             /\ ret'.out = "returned"
             /\ closeCallbacks' = closeCallbacks
             /\ listeners' = listeners
             /\ streams'[MapGet(closeCallbacks', ret'.arg)].open
     /\ (ret.op = "onerror" /\ ret'.op = "onmessage" /\ ret'.arg = ret.arg)
          => /\ Len(emitted') = 1
             /\ Len(invoked') = Len(ListenersIn(listeners', emitted'[1].type))
    ]_vars

\* Witness: a stream error was reported for the account subscription of GA
\* while cb1 listens for ACCOUNT_UPDATED: the entry is there, its stream is
\* open, and no callback was invoked.
C37_Witness ==
  /\ ret.op = "onerror"
  /\ ret.arg = "account-GA"
  /\ MapHas(closeCallbacks, "account-GA")
  /\ streams[MapGet(closeCallbacks, "account-GA")].open
  /\ SetHas(ListenersOf(ACCOUNT_UPDATED), "cb1")
  /\ Len(invoked) = 0

(***************************************************************************)
(* Properties of signTransaction and submitTransaction.                    *)
(***************************************************************************)
SignersOf(envelope) ==
  {envelope.signatures[k] : k \in 1..Len(envelope.signatures)}

C19_BadSecretLeavesEnvelope ==
  \A i \in 1..Len(txs) :
    LET c == txs[i]
    IN  (c.op = "signTransaction" /\ c.secretKey \notin {"SA", "SB"})
          => /\ ~c.result.ok
             /\ c.result.err =
                  <<"Error signing transaction", "invalid encoded string">>
             /\ c.envelope = c.transaction
             /\ c.envelope.signatures = c.transaction.signatures

\* C19 witness: a transaction that carries one signature was handed to
\* signTransaction with a secret that does not decode.
C19_Witness ==
  \E i \in 1..Len(txs) :
    /\ txs[i].op = "signTransaction"
    /\ txs[i].secretKey = "bad"
    /\ txs[i].transaction.signatures = <<"GA">>
    /\ ~txs[i].result.ok
    /\ txs[i].envelope.signatures = <<"GA">>

\* C20: when the server rejects a submission with result codes the call fails
\* with "Transaction failed" followed by the codes, and when the submission
\* fails any other way it fails with "Error submitting transaction" followed
\* by the failure's message; the two differ, and both stay at the end of the
\* error after submitTransaction of TransactionService has wrapped it once
\* and sendPayment, addTrustline or createAccount once more.
C20_RejectionKeepsResultCodes ==
  \A i \in 1..Len(txs) :
    LET c == txs[i]
        n == Len(c.result.err)
    IN  (c.resp # NoResponse /\ ~c.resp.ok)
          => /\ ~c.result.ok
             /\ n = (IF c.op = "submitTransaction" THEN 3 ELSE 4)
             /\ c.result.err[n - 2] = "Error submitting transaction"
             /\ c.resp.extras
                  => /\ c.result.err[n - 1] = "Transaction failed"
                     /\ c.result.err[n] = c.resp.detail
                     /\ c.result.err[n] \in {"tx_bad_seq", "tx_bad_auth"}
             /\ ~c.resp.extras
                  => /\ c.result.err[n - 1] = "Error submitting transaction"
                     /\ c.result.err[n] = "NetworkError"
             /\ c.op = "sendPayment" => c.result.err[1] = "Error sending payment"
             /\ c.op = "addTrustline" => c.result.err[1] = "Error adding trustline"
             /\ c.op = "createAccount" => c.result.err[1] = "Error creating account"

\* C20 witness: the ledger accepted one payment and rejected a second one
\* with tx_bad_seq; the code is at the end of the error that sendPayment
\* threw, behind the contexts of the three layers.
C20_Witness ==
  /\ Len(txs) = 2
  /\ txs[1].result.ok
  /\ txs[2].op = "sendPayment"
  /\ txs[2].resp.extras
  /\ txs[2].result.err =
       <<"Error sending payment", "Error submitting transaction",
         "Transaction failed", "tx_bad_seq">>

(***************************************************************************)
(* Properties of the build stage.                                          *)
(***************************************************************************)
\* The context the build stage of each method puts around a failure:
\* createPaymentTransaction and createTrustlineTransaction have their own
\* catch, createAccount builds inside its own try block.
BuildContextOf(op) ==
  IF op = "sendPayment"
    THEN <<"Error sending payment", "Error creating payment transaction">>
    ELSE IF op = "addTrustline"
           THEN <<"Error adding trustline", "Error creating trustline transaction">>
           ELSE <<"Error creating account">>

\* C21: when the source account cannot be loaded from the server, whether the
\* server does not know it or cannot be reached, no transaction is built,
\* nothing is signed or submitted, and the caller gets the load failure
\* ("Error loading account" around the server's reason) inside the context of
\* the build stage.
C21_BuildFailsWhenAccountNotLoaded ==
  \A i \in 1..Len(txs) :
    LET c == txs[i]
    IN  (c.op \in ExecOps /\ c.pc # "loading" /\ ~c.loaded.ok)
          => /\ c.pc = "done"
             /\ c.built = NoEnvelope
             /\ c.envelope = NoEnvelope
             /\ c.submits = 0
             /\ ~c.result.ok
             /\ c.result.val = NoEnvelope
             /\ \E cause \in {"NotFoundError", "NetworkError"} :
                  /\ c.result.err =
                       BuildContextOf(c.op) \o <<"Error loading account", cause>>
                  /\ c.source = "GA" => cause = "NetworkError"

\* C21 witness: sendPayment from an account the ledger does not know ended
\* with the server's NotFoundError inside the contexts of loadAccount,
\* createPaymentTransaction and sendPayment.
C21_Witness ==
  \E i \in 1..Len(txs) :
    /\ txs[i].op = "sendPayment"
    /\ txs[i].source = "GX"
    /\ txs[i].pc = "done"
    /\ txs[i].built = NoEnvelope
    /\ txs[i].result.err =
         <<"Error sending payment", "Error creating payment transaction",
           "Error loading account", "NotFoundError">>

C23_PipelineLeavesDirectory ==
  [][txs' # txs => (keychain' = keychain /\ dirCalls' = dirCalls)]_vars

\* C23 witness: the ledger rejected a payment of GA with tx_bad_seq while the
\* secure store holds GA with its cached balances.
C23_Witness ==
  /\ \E i \in 1..Len(txs) :
       /\ txs[i].op = "sendPayment"
       /\ txs[i].pc = "done"
       /\ txs[i].resp.detail = "tx_bad_seq"
  /\ FindAccount(keychain, "GA") # NoAccount
  /\ FindAccount(keychain, "GA").balances = <<"40", "7">>
  /\ Len(keychain) = 2

\* C26 (as stated): an account that storeAccount stored (it returned true)
\* is in the secure store with the data it was stored with, whatever other
\* calls were made and however they overlapped, as long as every other call
\* targets another id.
C26_StoredAccountSurvivesOtherIds ==
  \A i \in 1..Len(dirCalls) :
    LET c == dirCalls[i]
    IN  (/\ c.op = "storeAccount"
         /\ c.pc = "done"
         /\ c.result = DirTrue
         /\ \A j \in 1..Len(dirCalls) : j # i => dirCalls[j].id # c.id)
          => FindAccount(keychain, c.id) = c.account


\* C27 (as stated): when a loadAccountData call returns the updated account,
\* the account stored under that id has the balances just fetched, and its
\* id, name and key pair are those that were stored before the call
\* returned; with overlapping calls this makes the stored balances those of
\* the call that wrote last.
C27_LoadReplacesStoredBalances ==
  [][\A i \in 1..Len(dirCalls) :
       (/\ dirCalls[i].op = "loadAccountData"
        /\ dirCalls[i].pc # "done"
        /\ dirCalls'[i].pc = "done"
        /\ dirCalls'[i].result.ok)
         => LET before == FindAccount(keychain, dirCalls[i].id)
                after == FindAccount(keychain', dirCalls[i].id)
            IN  /\ after # NoAccount
                /\ "balances" \in DOMAIN after
                /\ after.balances = dirCalls'[i].result.val.balances
                /\ before # NoAccount
                     => /\ after.id = before.id
                        /\ after.name = before.name
                        /\ after.keyPair = before.keyPair
    ]_vars


\* C30 (as stated): a deleteAccount(id) call that ends while no stored
\* account has the id returns false and leaves the stored list as it is; one
\* that ends while an account has the id returns true and leaves the list
\* without the accounts of that id and with every other account as it was.
C30_DeleteRemovesExactlyId ==
  [][\A i \in 1..Len(dirCalls) :
       (/\ dirCalls[i].op = "deleteAccount"
        /\ dirCalls[i].pc # "done"
        /\ dirCalls'[i].pc = "done")
         => IF FindAccount(keychain, dirCalls[i].id) = NoAccount
              THEN /\ dirCalls'[i].result = DirFalse
                   /\ keychain' = keychain
              ELSE /\ dirCalls'[i].result = DirTrue
                   /\ keychain' = FilterAccounts(keychain, dirCalls[i].id)
    ]_vars


\* The positions of the stored list accounts that hold a record with this id.
RecordsWithId(accounts, id) == {k \in 1..Len(accounts) : accounts[k].id = id}

C32_LoadNeverCreatesRecord ==
  [][\A i \in 1..Len(dirCalls) :
       dirCalls[i].op = "loadAccountData"
         => /\ (/\ dirCalls[i].pc = "reading"
                /\ dirCalls'[i].pc # "reading"
                /\ FindAccount(keychain, dirCalls[i].id) = NoAccount)
                 => /\ dirCalls'[i].pc = "done"
                    /\ ~dirCalls'[i].result.ok
            /\ (dirCalls[i].pc = "writing" /\ dirCalls'[i].pc = "done")
                 => \A id \in DirectoryIds :
                      FindAccount(keychain, id) = NoAccount
                        => FindAccount(keychain', id) = NoAccount
    ]_vars


\* C33 (as stated): whether or not the secure store fails during
\* storeAccount(a), the list that the call goes on to write holds every
\* account that is stored under another id at the moment the call reads the
\* store, and a call that returns false leaves the stored list exactly as it
\* was.
C33_StoreFailureLosesNothing ==
  [][\A i \in 1..Len(dirCalls) :
       dirCalls[i].op = "storeAccount"
         => /\ (dirCalls[i].pc = "reading" /\ dirCalls'[i].pc = "writing")
                 => \A id \in DirectoryIds \ {dirCalls[i].id} :
                      FindAccount(dirCalls'[i].toWrite, id) = FindAccount(keychain, id)
            /\ (/\ dirCalls[i].pc = "writing"
                /\ dirCalls'[i].pc = "done"
                /\ dirCalls'[i].result = DirFalse)
                 => keychain' = keychain
    ]_vars

=============================================================================
